---- MODULE Spec2Model ----
(***************************************************************************)
(* Model of import_checker.py: the recursive import traversal (getEdges),  *)
(* the Graph constructor, Tarjan's strongly connected components engine    *)
(* (_StrongCC) and the module-level reporting loop.                        *)
(*                                                                         *)
(* Module identifiers are the numbers 1..NumModules; ENTRY_POINT is 1.     *)
(* getImports is modelled by its result: the ordered list of normalised    *)
(* module identifiers of a file (files[fn]) or an IOError.  Python's       *)
(* recursion is made explicit by two call stacks: gframes for getEdges and *)
(* scc.frames for strong_connect.  The iteration order of the Python set   *)
(* Graph.vertices is not fixed by the language, so the engine's outer loop *)
(* picks any vertex that has no discovery index yet.                       *)
(***************************************************************************)
EXTENDS Naturals, Sequences, FiniteSets, TLC

\* ---------------------------------------------------------------- bounds
NumModules == 4
MaxLines == 3
NumVertices == 4
MaxEdges == 3

ENTRY_POINT == 1

Modules == 1..NumModules
VARIABLES pc, files, calls, raised, visited, gframes, edges, graph, scc, ri, printed

vars == <<pc, files, calls, raised, visited, gframes, edges, graph, scc, ri, printed>>

\* ---------------------------------------------------------------- helpers
Min(a, b) == IF a <= b THEN a ELSE b

Range(s) == {s[i] : i \in 1..Len(s)}

EmptyDict == [x \in {} |-> 0]

\* d[k] = v of a Python dict
Put(d, k, v) == [x \in DOMAIN d \cup {k} |-> IF x = k THEN v ELSE d[x]]

Last(s) == s[Len(s)]

ButLast(s) == SubSeq(s, 1, Len(s) - 1)

\* ---------------------------------------------------------------- Graph
\* set(chain(*edges)): every head and every tail
Chain(es) == {es[i][1] : i \in 1..Len(es)} \cup {es[i][2] : i \in 1..Len(es)}

\* self.tails[head]: the tails of head's edges, in edge order, duplicates kept
TailsOf(es, head) ==
  LET sel == SelectSeq(es, LAMBDA e : e[1] = head)
  IN  [i \in 1..Len(sel) |-> sel[i][2]]

\* Graph.__init__(edges, vertices).  tails is a defaultdict(list): a vertex
\* with no outgoing edge reads as the empty list.
Graph(es, vs) ==
  LET all == Chain(es) \cup vs
  IN  [edges |-> es, vertices |-> all, tails |-> [h \in all |-> TailsOf(es, h)]]

NoGraph == Graph(<<>>, {})

\* ---------------------------------------------------------------- _StrongCC
\* the engine object before __call__ and right after lines 71-75
FreshSCC ==
  [counter |-> 0, count |-> EmptyDict, lowlink |-> EmptyDict, stack |-> <<>>,
   connected_components |-> <<>>, frames |-> <<>>]

\* `tail in self.stack`
InStackAlways(tail, stack) == TRUE

InStack(tail, stack) == \E i \in 1..Len(stack) : stack[i] = tail

\* the for loop of line 55 moves on to the next tail
SameTail(i) == i

NextTail(i) == i + 1

\* lines 51-53: entry of strong_connect(head)
StrongConnectEnter(s, head) ==
  LET c == s.counter + 1
  IN  [s EXCEPT !.counter = c,
                !.lowlink = Put(@, head, c),
                !.count = Put(@, head, c),
                !.stack = Append(@, head),
                !.frames = Append(@, [head |-> head, i |-> 1])]

\* lines 55-61: one iteration of `for tail in self.graph.tails[head]` in the
\* innermost frame.  A new tail opens a recursive call (the frame keeps its
\* position until the call returns); otherwise the iteration ends here.
StrongConnectFor(s, tails) ==
  LET n == Len(s.frames)
      head == s.frames[n].head
      tail == tails[head][s.frames[n].i]
  IN  IF tail \notin DOMAIN s.count
        THEN StrongConnectEnter(s, tail)
        ELSE [s EXCEPT !.lowlink =
                         IF s.count[tail] < s.count[head] /\ InStack(tail, s.stack)
                           THEN Put(@, head, Min(@[head], s.count[tail]))
                           ELSE @,
                       !.frames[n].i = NextTail(@)]

\* the pop condition of line 65
PopsStrict(c, h) == c > h

Pops(c, h) == c >= h

\* lines 64-66: pop while the top's index is at least head's
RECURSIVE PopComponent(_, _, _, _)
PopComponent(stack, count, head, component) ==
  IF stack # <<>> /\ Pops(count[Last(stack)], count[head])
    THEN PopComponent(ButLast(stack), count, head, Append(component, Last(stack)))
    ELSE [stack |-> stack, component |-> component]

\* line 67
EmitFirst(ccs, component) == <<component>> \o ccs

Emit(ccs, component) == Append(ccs, component)

\* lines 63-67 and the return: the innermost frame has exhausted its tails.
\* Returning into a caller resumes it at line 58 and ends its iteration.
StrongConnectExit(s) ==
  LET n == Len(s.frames)
      head == s.frames[n].head
      p == PopComponent(s.stack, s.count, head, <<>>)
      s1 == IF s.lowlink[head] = s.count[head]
              THEN [s EXCEPT !.stack = p.stack,
                             !.connected_components = Emit(@, p.component)]
              ELSE s
  IN  IF n = 1
        THEN [s1 EXCEPT !.frames = <<>>]
        ELSE LET caller == s.frames[n - 1].head
             IN  [s1 EXCEPT !.frames = [ButLast(@) EXCEPT ![n - 1].i = NextTail(@)],
                            !.lowlink = Put(@, caller,
                                            Min(@[caller], s1.lowlink[head]))]

\* __call__ (lines 69-81) run to completion as a function of the graph, for
\* one iteration order of the vertex set
RECURSIVE RunSCC(_, _)
RunSCC(s, g) ==
  IF s.frames # <<>>
    THEN IF Last(s.frames).i <= Len(g.tails[Last(s.frames).head])
           THEN RunSCC(StrongConnectFor(s, g.tails), g)
           ELSE RunSCC(StrongConnectExit(s), g)
    ELSE IF g.vertices \subseteq DOMAIN s.count
           THEN s.connected_components
           ELSE RunSCC(StrongConnectEnter(s, CHOOSE v \in g.vertices \ DOMAIN s.count : TRUE), g)

strongly_connected_components(g) == RunSCC(FreshSCC, g)

InFrame == scc.frames # <<>>

TopFrame == Last(scc.frames)

\* ---------------------------------------------------------------- actions
\* line 86: Graph(edges) -- no extra vertices are passed
BuildGraph ==
  /\ pc = "graph"
  /\ graph' = Graph(edges, {})
  /\ pc' = "call"
  /\ UNCHANGED <<files, calls, raised, visited, gframes, edges, scc, ri, printed>>

\* lines 70-75
CallSCC ==
  /\ pc = "call"
  /\ scc' = FreshSCC
  /\ pc' = "scc"
  /\ UNCHANGED <<files, calls, raised, visited, gframes, edges, graph, ri, printed>>

\* lines 77-79: the next vertex of the set that has no index yet
CallLoop ==
  /\ pc = "scc"
  /\ ~InFrame
  /\ \E v \in graph.vertices \ DOMAIN scc.count :
       scc' = StrongConnectEnter(scc, v)
  /\ UNCHANGED <<pc, files, calls, raised, visited, gframes, edges, graph, ri, printed>>

ForStep ==
  /\ pc = "scc"
  /\ InFrame
  /\ TopFrame.i <= Len(graph.tails[TopFrame.head])
  /\ scc' = StrongConnectFor(scc, graph.tails)
  /\ UNCHANGED <<pc, files, calls, raised, visited, gframes, edges, graph, ri, printed>>

ExitStep ==
  /\ pc = "scc"
  /\ InFrame
  /\ TopFrame.i > Len(graph.tails[TopFrame.head])
  /\ scc' = StrongConnectExit(scc)
  /\ UNCHANGED <<pc, files, calls, raised, visited, gframes, edges, graph, ri, printed>>

\* line 81
ReturnSCC ==
  /\ pc = "scc"
  /\ ~InFrame
  /\ graph.vertices \subseteq DOMAIN scc.count
  /\ pc' = "report"
  /\ ri' = 1
  /\ UNCHANGED <<files, calls, raised, visited, gframes, edges, graph, scc, printed>>

\* ---------------------------------------------------------------- getEdges
\* getImports(fn) on a readable file: the normalised identifiers of the
\* import lines of fn, in file order, repeated lines kept
getImports(fn) == files[fn]

\* where control goes when getImports raises IOError: no frame of getEdges
\* and no module-level statement catches it, so the run ends
Swallowed == "graph"

Uncaught == "failed"

\* line 29: the edge is recorded whether or not the target was visited
RecordEdgeIfNew(es, fn, i, seen) == IF seen THEN es ELSE Append(es, <<fn, i>>)

RecordEdge(es, fn, i, seen) == Append(es, <<fn, i>>)

\* the outcomes of open(fn): it succeeds or raises IOError.  The files do not
\* change during a run, so a file that was read before opens again.
Opens(fn) == IF calls[fn] > 0 THEN {TRUE} ELSE BOOLEAN

\* lines 24-27: entry of getEdges(fn) once getImports(fn) has returned
GetEdgesFrame(fn) == [fn |-> fn, imports |-> getImports(fn), i |-> 1, edges |-> <<>>]

\* line 85: edges = getEdges(ENTRY_POINT), up to the first loop iteration.
\* visited is a fresh defaultdict(bool); open() succeeds or raises IOError.
MainGetEdges ==
  /\ pc = "main"
  /\ calls' = [calls EXCEPT ![ENTRY_POINT] = @ + 1]
  /\ \E ok \in Opens(ENTRY_POINT) :
       IF ok
         THEN /\ gframes' = <<GetEdgesFrame(ENTRY_POINT)>>
              /\ pc' = "getEdges"
              /\ raised' = raised
         ELSE /\ gframes' = <<>>
              /\ pc' = Uncaught
              /\ raised' = "IOError"
  /\ UNCHANGED <<files, visited, edges, graph, scc, ri, printed>>

\* lines 28-32: one iteration of `for i in imports` in the innermost call
GetEdgesFor ==
  /\ pc = "getEdges"
  /\ LET n == Len(gframes)
         f == gframes[n]
     IN  /\ f.i <= Len(f.imports)
         /\ LET i == f.imports[f.i]
                es == RecordEdge(f.edges, f.fn, i, i \in visited)
            IN  IF i \notin visited
                  THEN /\ visited' = visited \cup {i}
                       /\ calls' = [calls EXCEPT ![i] = @ + 1]
                       /\ \E ok \in Opens(i) :
                            IF ok
                              THEN /\ gframes' = Append([gframes EXCEPT ![n].edges = es],
                                                        GetEdgesFrame(i))
                                   /\ UNCHANGED <<pc, raised>>
                              ELSE /\ gframes' = <<>>
                                   /\ pc' = Uncaught
                                   /\ raised' = "IOError"
                  ELSE /\ gframes' = [gframes EXCEPT ![n].edges = es, ![n].i = @ + 1]
                       /\ UNCHANGED <<pc, raised, visited, calls>>
  /\ UNCHANGED <<files, edges, graph, scc, ri, printed>>

\* line 33: the innermost call returns its edges; a caller appends them
\* (line 32) and moves on, the outermost return assigns edges (line 85)
GetEdgesReturn ==
  /\ pc = "getEdges"
  /\ LET n == Len(gframes)
         f == gframes[n]
     IN  /\ f.i > Len(f.imports)
         /\ IF n = 1
              THEN /\ edges' = f.edges
                   /\ gframes' = <<>>
                   /\ pc' = "graph"
              ELSE /\ gframes' = [ButLast(gframes) EXCEPT ![n - 1].edges = @ \o f.edges,
                                                          ![n - 1].i = @ + 1]
                   /\ UNCHANGED <<pc, edges>>
  /\ UNCHANGED <<files, calls, raised, visited, graph, scc, ri, printed>>

\* ---------------------------------------------------------------- reporter
\* lines 87-88
SkipsNothing(edgeGroup) == FALSE

Skips(edgeGroup) == Len(edgeGroup) = 1

\* lines 86-89: one iteration over the returned components
Report ==
  /\ pc = "report"
  /\ ri <= Len(scc.connected_components)
  /\ printed' = IF Skips(scc.connected_components[ri])
                  THEN printed
                  ELSE Append(printed, scc.connected_components[ri])
  /\ ri' = ri + 1
  /\ UNCHANGED <<pc, files, calls, raised, visited, gframes, edges, graph, scc>>

\* the loop of line 86 is exhausted: the script ends
Exit ==
  /\ pc = "report"
  /\ ri > Len(scc.connected_components)
  /\ pc' = "done"
  /\ UNCHANGED <<files, calls, raised, visited, gframes, edges, graph, scc, ri, printed>>

\* ---------------------------------------------------------------- the whole script
\* the import lines of all files, as (importer, imported) pairs grouped by
\* importer: every list of n lines
RECURSIVE Lines(_)
Lines(n) ==
  IF n = 0 THEN {<<>>}
  ELSE {t \in {Append(s, <<a, b>>) : s \in Lines(n - 1), a \in Modules, b \in Modules} :
          n = 1 \/ t[n - 1][1] <= t[n][1]}

\* the import list of each file
FilesOf(lines) == [m \in Modules |-> TailsOf(lines, m)]

Init ==
  /\ pc = "main"
  /\ \E k \in 0..MaxLines : \E lines \in Lines(k) : files = FilesOf(lines)
  /\ calls = [m \in Modules |-> 0]
  /\ raised = "none"
  /\ visited = {}
  /\ gframes = <<>>
  /\ edges = <<>>
  /\ graph = NoGraph
  /\ scc = FreshSCC
  /\ ri = 0
  /\ printed = <<>>

Next ==
  \/ MainGetEdges \/ GetEdgesFor \/ GetEdgesReturn
  \/ BuildGraph
  \/ CallSCC \/ CallLoop \/ ForStep \/ ExitStep \/ ReturnSCC
  \/ Report \/ Exit

Spec == Init /\ [][Next]_vars

\* the interpreter runs the script to its end: a step that can be taken is taken
FairSpec == Spec /\ WF_vars(Next)

\* ---------------------------------------------------------------- SCC engine alone
\* The graphs handed to strongly_connected_components: Graph(edges, vertices)
\* for every edge list of at most MaxEdges edges and every set of further
\* isolated vertices, up to renaming of the vertices.  Identifiers are opaque
\* to the engine and its iteration order is arbitrary, so the vertices are
\* numbered in the order of their first occurrence in chain(*edges), the
\* isolated ones after them.
MaxOf(s) == IF s = <<>> THEN 0 ELSE CHOOSE m \in Range(s) : \A x \in Range(s) : x <= m

\* the flattened edge lists of n entries
RECURSIVE Flat(_)
Flat(n) ==
  IF n = 0 THEN {<<>>}
  ELSE {t \in {Append(s, x) : s \in Flat(n - 1), x \in 1..NumVertices} :
          t[n] <= MaxOf(ButLast(t)) + 1}

Pairs(s) == [i \in 1..(Len(s) \div 2) |-> <<s[2 * i - 1], s[2 * i]>>]

InitSCC ==
  /\ pc = "call"
  /\ files = [m \in Modules |-> <<>>]
  /\ calls = [m \in Modules |-> 0]
  /\ raised = "none"
  /\ visited = {}
  /\ gframes = <<>>
  /\ edges = <<>>
  /\ \E k \in 0..MaxEdges : \E s \in Flat(2 * k) : \E m \in MaxOf(s)..NumVertices :
       graph = Graph(Pairs(s), 1..m)
  /\ scc = FreshSCC
  /\ ri = 0
  /\ printed = <<>>

NextSCC == CallSCC \/ CallLoop \/ ForStep \/ ExitStep \/ ReturnSCC

SpecSCC == InitSCC /\ [][NextSCC]_vars

\* ---------------------------------------------------------------- SCC properties
Returned == pc = "report"

CC == scc.connected_components

EdgeSet == Range(graph.edges)

\* the vertices reachable from the set S along directed edges of E
RECURSIVE ReachSet(_, _)
ReachSet(E, S) ==
  LET S2 == S \cup {e[2] : e \in {d \in E : d[1] \in S}}
  IN  IF S2 = S THEN S ELSE ReachSet(E, S2)

Reaches(u, v) == v \in ReachSet(EdgeSet, {u})

SameComponent(u, v) == \E k \in 1..Len(CC) : u \in Range(CC[k]) /\ v \in Range(CC[k])

\* the components by membership
ComponentSets(ccs) == {Range(ccs[k]) : k \in 1..Len(ccs)}

\* C1: when strongly_connected_components returns, two vertices share a
\* component if and only if each is reachable from the other.
C1_MutualReachability ==
  Returned =>
    \A u, v \in graph.vertices :
      SameComponent(u, v) <=> (Reaches(u, v) /\ Reaches(v, u))

\* two disjoint cycles (a self-loop and a two-cycle) came back as two components
C1_Witness ==
  /\ Returned
  /\ \E a, b, c \in graph.vertices :
       /\ Cardinality({a, b, c}) = 3
       /\ {<<a, a>>, <<b, c>>, <<c, b>>} = EdgeSet
       /\ SameComponent(b, c) /\ ~SameComponent(a, b)

\* C2: the returned components partition Graph.vertices: every vertex occurs
\* at exactly one position of exactly one component, no component is empty and
\* no component holds a non-vertex.
C2_Partition ==
  Returned =>
    /\ \A v \in graph.vertices :
         /\ Cardinality({k \in 1..Len(CC) : v \in Range(CC[k])}) = 1
         /\ \A k \in 1..Len(CC) : Cardinality({j \in 1..Len(CC[k]) : CC[k][j] = v}) <= 1
    /\ \A k \in 1..Len(CC) : CC[k] # <<>> /\ Range(CC[k]) \subseteq graph.vertices

\* a graph with a cycle, a vertex without outgoing edges and an isolated vertex
C2_Witness ==
  /\ Returned
  /\ \E v \in graph.vertices : v \notin Chain(graph.edges)
  /\ \E v \in Chain(graph.edges) : graph.tails[v] = <<>>
  /\ \E k \in 1..Len(CC) : Len(CC[k]) >= 2

\* the edge list with every repeated (head, tail) pair removed
RECURSIVE Dedup(_)
Dedup(es) ==
  IF es = <<>> THEN <<>>
  ELSE LET r == Dedup(ButLast(es))
       IN  IF Last(es) \in Range(r) THEN r ELSE Append(r, Last(es))

\* C9: the components returned for an edge list are, by membership, the
\* components returned for the same list with repeated edges removed.
C9_DuplicateEdges ==
  Returned =>
    ComponentSets(CC) =
      ComponentSets(strongly_connected_components(Graph(Dedup(graph.edges), graph.vertices)))

\* a two-cycle one of whose edges occurs twice in the edge list
C9_Witness ==
  /\ Returned
  /\ \E i, j \in 1..Len(graph.edges) :
       /\ i < j /\ graph.edges[i] = graph.edges[j]
       /\ graph.edges[i][1] # graph.edges[i][2]
       /\ SameComponent(graph.edges[i][1], graph.edges[i][2])

\* C10: components are appended in reverse topological order of the
\* condensation (an edge leaving a component leads into a component appended
\* earlier), and the last element of each component is its root: the member
\* with the smallest discovery index, whose lowlink equals its index.
C10_ReverseTopological ==
  \A k \in 1..Len(CC) :
    /\ \A e \in EdgeSet :
         (e[1] \in Range(CC[k]) /\ e[2] \notin Range(CC[k]))
           => \E j \in 1..(k - 1) : e[2] \in Range(CC[j])
    /\ CC[k] # <<>>
    /\ \A v \in Range(CC[k]) : scc.count[Last(CC[k])] <= scc.count[v]
    /\ scc.lowlink[Last(CC[k])] = scc.count[Last(CC[k])]

\* a cycle with an edge into another component, both emitted
C10_Witness ==
  /\ Returned
  /\ \E k \in 1..Len(CC) :
       /\ Len(CC[k]) >= 2
       /\ \E e \in EdgeSet : e[1] \in Range(CC[k]) /\ e[2] \notin Range(CC[k])

\* ---------------------------------------------------------------- script properties
\* the import relation of the files on disk
Imports == UNION {{<<m, files[m][j]>> : j \in 1..Len(files[m])} : m \in Modules}

\* the entry point and every module reachable from it through imports
ReachableModules == ReachSet(Imports, {ENTRY_POINT})

GraphBuilt == pc \in {"call", "scc", "report", "done"}

TraversalDone == pc \in {"graph", "call", "scc", "report", "done"}

\* C3: the vertex set handed to the SCC engine is the entry point together
\* with every head and every tail of the collected edges, and at the end the
\* entry point lies in exactly one returned component.
C3_EntryPointIsVertex ==
  /\ GraphBuilt => graph.vertices = {ENTRY_POINT} \cup Chain(edges)
  /\ pc = "done" => Cardinality({k \in 1..Len(CC) : ENTRY_POINT \in Range(CC[k])}) = 1

\* C4: during one traversal getImports is invoked at most once per module
\* identifier, the entry point included.
C4_ImportsReadOnce == \A m \in Modules : calls[m] <= 1

\* C5: when the traversal completes (no file failed to open), the collected
\* edges are, as a set, exactly the pairs (m, i) with m the entry point or
\* reachable from it and i a direct import of m.
C5_EdgesExact ==
  TraversalDone => Range(edges) = {e \in Imports : e[1] \in ReachableModules}

\* a completed traversal that met an already-visited target and left an
\* unreachable module with imports of its own aside
C5_Witness ==
  /\ TraversalDone
  /\ \E m \in Modules \ ReachableModules : files[m] # <<>>
  /\ \E m \in ReachableModules \ {ENTRY_POINT} :
       Cardinality({e \in Range(edges) : e[2] = m}) >= 2

\* C6: once getImports has raised IOError the run is over: the script is in
\* its failed state with no step left, the graph was never built, the SCC
\* engine never started and nothing was printed.
C6_IOErrorAborts ==
  raised = "IOError" =>
    /\ pc = "failed"
    /\ ~ENABLED Next
    /\ graph = NoGraph
    /\ scc = FreshSCC
    /\ printed = <<>>

\* the IOError came after a two-cycle had been read successfully
C6_Witness ==
  /\ raised = "IOError"
  /\ \E a, b \in Modules :
       /\ a # b
       /\ calls[a] >= 1 /\ calls[b] >= 1
       /\ <<a, b>> \in Imports /\ <<b, a>> \in Imports
       /\ \E c \in Modules \ {a, b} : calls[c] = 1 /\ (<<a, c>> \in Imports \/ <<b, c>> \in Imports)

AtLeastTwo(c) == Len(c) >= 2

\* v lies on a cycle through another vertex
OnProperCycle(v) == \E u \in graph.vertices \ {v} : Reaches(v, u) /\ Reaches(u, v)

\* no vertex leads back to itself along one or more edges
Acyclic == \A e \in EdgeSet : ~Reaches(e[2], e[1])

InPrinted(v) == \E k \in 1..Len(printed) : v \in Range(printed[k])

Finished ==
  /\ pc = "done"
  /\ gframes = <<>>
  /\ graph.vertices \subseteq DOMAIN scc.count
  /\ scc.stack = <<>>
  /\ scc.frames = <<>>

\* C8: every run in which no file fails to open terminates: the traversal
\* and then the SCC engine finish, every vertex has a discovery index and the
\* in-progress stack is empty.
C8_Terminates == <>(raised = "IOError" \/ Finished)

\* a finished run over a self-import and a cycle through the entry point
C8_Witness ==
  /\ Finished
  /\ \E m \in Modules \ {ENTRY_POINT} :
       /\ <<ENTRY_POINT, m>> \in Range(edges)
       /\ <<m, ENTRY_POINT>> \in Range(edges)
       /\ <<m, m>> \in Range(edges)

====
